---------------------------- MODULE Spec2Model ----------------------------
(***************************************************************************)
(* Model of the dog-image GAN notebook (src/dl_final.ipynb).               *)
(*                                                                         *)
(* The notebook is a sequence of cells.  Six parts of it are modelled,     *)
(* each with its own specification over the shared variables:              *)
(*   SpecTrain  train_gan, the training loop                               *)
(*   SpecLoad   the annotation loading loop, then the cleaning cell        *)
(*   SpecClean  the cleaning cell on an arbitrary annotations_df           *)
(*   SpecPre    load_and_preprocess_images and the module-level call       *)
(*   SpecCrop   the crop-region computation of load_and_preprocess_images  *)
(*   SpecCells  the two training cells, then random_search                 *)
(* Calls into Keras and matplotlib (predict, train_on_batch, savefig) are  *)
(* taken to return normally; what they return is a free input.             *)
(***************************************************************************)
EXTENDS Integers, Sequences, FiniteSets, TLC

(***************************************************************************)
(* Bounds of the model.                                                    *)
(***************************************************************************)
MaxEpochs == 4
MaxInterval == 3
MaxImages == 1
MaxFolders == 2
MaxFiles == 3
MaxRows == 1
MaxPreFiles == 2
MaxTrials == 2

VARIABLES
    \* ---- train_gan ----
    epochs,          \* parameter epochs
    save_interval,   \* parameter save_interval
    n_images,        \* processed_images.shape[0]
    t_pc,            \* position in train_gan
    epoch,           \* loop variable of `for epoch in range(epochs)`
    d_loss_real,     \* <<loss, accuracy>> of the last D update on real images
    d_loss_fake,     \* <<loss, accuracy>> of the last D update on generated ones
    g_loss,          \* loss of the last generator update
    log,             \* the calls made so far, in order
    saved,           \* epochs passed to save_images, in order
    \* ---- annotation loading cell and cleaning cell ----
    a_pc,            \* position in the two cells
    folders_left,    \* folders of os.listdir(annotations_path) not yet entered
    visited,         \* the annotation files visited so far, in order
    annotations,     \* module-level list `annotations`
    annotations_df,  \* module-level DataFrame `annotations_df`
    \* ---- load_and_preprocess_images and its call (line 233) ----
    lp_pc,               \* position in load_and_preprocess_images
    lp_folders_left,     \* folders of the outer loop not yet entered
    lp_visited,          \* the files visited: annotation file and, once
                         \* Image.open was called, what it found on disk
    lp_exc,              \* the exception that left the function, if any
    l_processed_images,  \* local list processed_images
    l_annotations,       \* local list annotations
    bbox,                \* local bbox of the last crop
    processed_images,    \* module-level processed_images
    \* ---- the training cells and the random search (lines 488-571) ----
    c_pc,                \* position in the three cells
    n_iter,              \* parameter n_iter of random_search
    n_built,             \* models built so far by the build_* functions
    files,               \* the folder images/: path |-> what was rendered
    runs,                \* the train_gan calls completed, in order
    trials,              \* the trials of random_search, in order
    rs_best_params,      \* local best_params of random_search
    rs_best_performance, \* local best_performance of random_search
    best_params,         \* module-level best_params
    folder_exists        \* whether the folder images/ exists

trainVars == <<epochs, save_interval, n_images, t_pc, epoch,
               d_loss_real, d_loss_fake, g_loss, log, saved>>

loadVars == <<a_pc, folders_left, visited, annotations, annotations_df>>

loadRest == <<a_pc, folders_left, visited, annotations_df>>

preVars == <<lp_pc, lp_folders_left, lp_visited, lp_exc,
             l_processed_images, l_annotations, bbox, processed_images>>

cellVars == <<c_pc, n_iter, n_built, files, runs, trials,
              rs_best_params, rs_best_performance, best_params,
              folder_exists>>

vars == <<trainVars, loadVars, preVars, cellVars>>

(***************************************************************************)
(* Python helpers.                                                         *)
(***************************************************************************)
\* a % b of Python: the result has the sign of b; b = 0 raises
PyMod(a, b) == IF b > 0 THEN a % b ELSE 0 - ((0 - a) % (0 - b))

\* mutant: the loop runs one index too far
Range_OffByOne(n) == 0 .. n

\* range(n): the indices 0 .. n-1, empty for n <= 0
Range(n) == 0 .. (n - 1)

(***************************************************************************)
(* Text and XML.  A text is a sequence of characters.  An element looked   *)
(* up with root.find is absent (find returns None), empty (its .text is    *)
(* None) or carries a text.                                                *)
(***************************************************************************)
Absent == [e |-> "absent"]
Empty == [e |-> "empty"]
Text(cs) == [e |-> "text", t |-> cs]

\* Python values: None, a str, an int
PyNone == [none |-> TRUE]
PyStr(cs) == [s |-> cs]

\* the outcome of an expression: a value, or an exception raised
Ok(v) == [ok |-> TRUE, val |-> v]
Raise(x) == [ok |-> FALSE, exc |-> x]

DigitChars == <<"0", "1", "2", "3", "4", "5", "6", "7", "8", "9">>
IsDigit(c) == \E i \in 1 .. 10 : DigitChars[i] = c
DigitVal(c) == (CHOOSE i \in 1 .. 10 : DigitChars[i] = c) - 1

RECURSIVE StripLeft(_)
StripLeft(cs) ==
    IF cs /= <<>> /\ Head(cs) = " " THEN StripLeft(Tail(cs)) ELSE cs

RECURSIVE StripRight(_)
StripRight(cs) ==
    IF cs /= <<>> /\ cs[Len(cs)] = " "
    THEN StripRight(SubSeq(cs, 1, Len(cs) - 1)) ELSE cs

RECURSIVE DigitsValue(_)
DigitsValue(cs) ==
    IF cs = <<>> THEN 0
    ELSE 10 * DigitsValue(SubSeq(cs, 1, Len(cs) - 1)) + DigitVal(cs[Len(cs)])

\* int(text) for a str: blanks stripped, an optional sign, decimal digits
PyInt(cs) ==
    LET st == StripRight(StripLeft(cs))
        signed == st /= <<>> /\ st[1] \in {"+", "-"}
        body == IF signed THEN Tail(st) ELSE st
    IN  IF body = <<>> \/ \E i \in 1 .. Len(body) : ~IsDigit(body[i])
        THEN Raise("ValueError")
        ELSE Ok(IF st[1] = "-" THEN 0 - DigitsValue(body) ELSE DigitsValue(body))

\* root.find(path).text
TextOf(el) ==
    IF el.e = "absent" THEN Raise("AttributeError")
    ELSE IF el.e = "empty" THEN Ok(PyNone)
    ELSE Ok(PyStr(el.t))

\* int(root.find(path).text)
IntOf(el) ==
    IF el.e = "absent" THEN Raise("AttributeError")
    ELSE IF el.e = "empty" THEN Raise("TypeError")
    ELSE PyInt(el.t)

RECURSIVE FindLastInObjects(_, _)
RECURSIVE FindInObjects(_, _)
\* mutant: the last matching element is taken
FindLastInObjects(objects, field) ==
    IF objects = <<>> THEN Absent
    ELSE IF objects[Len(objects)][field].e /= "absent"
         THEN objects[Len(objects)][field]
         ELSE FindLastInObjects(SubSeq(objects, 1, Len(objects) - 1), field)

\* root.find('object/...'): the first match in document order
FindInObjects(objects, field) ==
    IF objects = <<>> THEN Absent
    ELSE IF Head(objects)[field].e /= "absent" THEN Head(objects)[field]
    ELSE FindInObjects(Tail(objects), field)

\* parse_annotation: the dictionary entries are evaluated in source order
\* and the first failure is the exception raised
parse_annotation(f) ==
    IF ~f.wellformed THEN Raise("ParseError")
    ELSE
    LET r == << TextOf(f.filename),
                IntOf(f.width),
                IntOf(f.height),
                TextOf(FindInObjects(f.objects, "name")),
                IntOf(FindInObjects(f.objects, "xmin")),
                IntOf(FindInObjects(f.objects, "ymin")),
                IntOf(FindInObjects(f.objects, "xmax")),
                IntOf(FindInObjects(f.objects, "ymax")) >>
        bad == {i \in 1 .. 8 : ~r[i].ok}
    IN  IF bad /= {}
        THEN Raise(r[CHOOSE i \in bad : \A j \in bad : i <= j].exc)
        ELSE Ok([filename |-> r[1].val, width |-> r[2].val,
                 height |-> r[3].val, class |-> r[4].val,
                 xmin |-> r[5].val, ymin |-> r[6].val,
                 xmax |-> r[7].val, ymax |-> r[8].val])

\* a name not yet bound
Unbound == [unbound |-> TRUE]

\* Python floats: float('inf') and finite values, in some unit
Inf == [inf |-> TRUE]
Fl(n) == [v |-> n]

\* the three cells not running
CellsIdle ==
    /\ c_pc = "idle"
    /\ folder_exists = TRUE
    /\ n_iter = 0
    /\ n_built = 0
    /\ files = <<>>
    /\ runs = <<>>
    /\ trials = <<>>
    /\ rs_best_params = PyNone
    /\ rs_best_performance = Inf
    /\ best_params = Unbound

\* train_gan not running
TrainIdle ==
    /\ epochs = 0
    /\ save_interval = 1
    /\ n_images = 0
    /\ t_pc = "idle"
    /\ epoch = 0
    /\ d_loss_real = <<0, 0>>
    /\ d_loss_fake = <<0, 0>>
    /\ g_loss = 0
    /\ log = <<>>
    /\ saved = <<>>

(***************************************************************************)
(* The annotation files the loops may meet.                                *)
(***************************************************************************)
\* the decimal text of a small integer
NumText(n) ==
    IF n < 0 THEN <<"-", DigitChars[1 - n]>> ELSE <<DigitChars[n + 1]>>

Pug == <<"p", "u", "g">>
Chow == <<"c", "h", "o", "w">>

Obj(name, b) ==
    [name |-> Text(name), xmin |-> Text(NumText(b[1])),
     ymin |-> Text(NumText(b[2])), xmax |-> Text(NumText(b[3])),
     ymax |-> Text(NumText(b[4]))]

Xml(name, w, h, objs) ==
    [wellformed |-> TRUE, filename |-> name, width |-> w, height |-> h,
     objects |-> objs]

BoxNormal == <<0, 0, 2, 2>>
BoxWide == <<1, 0, 3, 1>>
BoxFlat == <<1, 1, 1, 2>>
BoxReversed == <<2, 0, 1, 2>>

NameD1 == <<"d", "1">>
NamePercentS == <<"d", "%", "s">>

ObjectLists ==
    {<<Obj(Pug, b)>> : b \in {BoxNormal, BoxWide, BoxFlat, BoxReversed}}
    \cup {<<Obj(Pug, BoxNormal), Obj(Chow, BoxWide)>>,
          <<Obj(Chow, BoxWide), Obj(Pug, BoxNormal)>>}

\* files that parse and have every element in place
GoodXmlFiles ==
    {Xml(Text(n), Text(NumText(3)), Text(NumText(2)), objs) :
        n \in {NameD1, NamePercentS}, objs \in ObjectLists}
    \cup {Xml(Text(NameD1), Text(<<" ", "3">>), Text(<<"+", "2", " ">>),
              <<Obj(Chow, BoxNormal)>>)}

\* files with something wrong
BadXmlFiles ==
    { [Xml(Text(NameD1), Text(NumText(3)), Text(NumText(2)),
           <<Obj(Pug, BoxNormal)>>) EXCEPT !.wellformed = FALSE],
      Xml(Text(NameD1), Text(NumText(3)), Text(NumText(2)), <<>>),
      Xml(Text(NameD1), Text(<<"x">>), Text(NumText(2)),
          <<Obj(Pug, BoxNormal)>>),
      Xml(Text(NameD1), Text(NumText(3)), Text(<<"2", ".", "5">>),
          <<Obj(Pug, BoxNormal)>>),
      Xml(Absent, Text(NumText(3)), Text(NumText(2)),
          <<Obj(Pug, BoxNormal)>>),
      Xml(Empty, Text(NumText(3)), Text(NumText(2)),
          <<Obj(Pug, BoxNormal)>>),
      Xml(Text(NameD1), Text(NumText(3)), Text(NumText(2)),
          <<[Obj(Pug, BoxNormal) EXCEPT !.ymax = Empty]>>),
      Xml(Text(NameD1), Text(NumText(3)), Text(NumText(2)),
          <<[Obj(Pug, BoxNormal) EXCEPT !.xmin = Absent],
            Obj(Chow, BoxWide)>>) }

XmlFiles == GoodXmlFiles \cup BadXmlFiles

(***************************************************************************)
(* The annotation loading cell (lines 93-103).                             *)
(***************************************************************************)
AnnotationColumns ==
    {"filename", "width", "height", "class", "xmin", "ymin", "xmax", "ymax"}

\* pd.DataFrame(list of dicts): one row per dict in list order; no dict, no
\* column
DataFrame(records) ==
    [columns |-> IF records = <<>> THEN {} ELSE AnnotationColumns,
     rows |-> records]

\* load_and_preprocess_images not running
PreIdle ==
    /\ lp_pc = "idle"
    /\ lp_folders_left = 0
    /\ lp_visited = <<>>
    /\ lp_exc = "none"
    /\ l_processed_images = <<>>
    /\ l_annotations = <<>>
    /\ bbox = <<0, 0, 0, 0>>
    /\ processed_images = Unbound

LoadIdle ==
    /\ a_pc = "idle"
    /\ folders_left = 0
    /\ visited = <<>>
    /\ annotations = <<>>
    /\ annotations_df = Unbound

\* line 93: annotations = []
LoadInit ==
    /\ TrainIdle
    /\ PreIdle
    /\ CellsIdle
    /\ a_pc = "outer"
    /\ folders_left \in 0 .. MaxFolders
    /\ visited = <<>>
    /\ annotations = <<>>
    /\ annotations_df = Unbound

\* lines 94-96: the outer loop takes the next folder
AL_EnterFolder ==
    /\ a_pc = "outer"
    /\ folders_left > 0
    /\ folders_left' = folders_left - 1
    /\ a_pc' = "inner"
    /\ UNCHANGED <<visited, annotations, annotations_df>>
    /\ UNCHANGED <<trainVars, preVars, cellVars>>

\* lines 96-100: the inner loop parses the next file and appends its record
AL_Visit ==
    /\ a_pc = "inner"
    /\ Len(visited) < MaxFiles
    /\ \E f \in XmlFiles :
         /\ parse_annotation(f).ok
         /\ visited' = Append(visited, f)
         /\ annotations' = Append(annotations, parse_annotation(f).val)
    /\ UNCHANGED <<a_pc, folders_left, annotations_df>>
    /\ UNCHANGED <<trainVars, preVars, cellVars>>

\* line 99: parse_annotation raises, the cell stops
AL_VisitRaises ==
    /\ a_pc = "inner"
    /\ Len(visited) < MaxFiles
    /\ \E f \in XmlFiles :
         /\ ~parse_annotation(f).ok
         /\ visited' = Append(visited, f)
    /\ a_pc' = "raised"
    /\ UNCHANGED <<folders_left, annotations, annotations_df>>
    /\ UNCHANGED <<trainVars, preVars, cellVars>>

\* line 97: the folder has no further file
AL_EndFolder ==
    /\ a_pc = "inner"
    /\ a_pc' = "outer"
    /\ UNCHANGED <<folders_left, visited, annotations, annotations_df>>
    /\ UNCHANGED <<trainVars, preVars, cellVars>>

\* lines 102-103: annotations_df = pd.DataFrame(annotations)
AL_Build ==
    /\ a_pc = "outer"
    /\ folders_left = 0
    /\ annotations_df' = DataFrame(annotations)
    /\ a_pc' = "built"
    /\ UNCHANGED <<folders_left, visited, annotations>>
    /\ UNCHANGED <<trainVars, preVars, cellVars>>

(***************************************************************************)
(* The data cleaning cell (lines 157-171).                                 *)
(***************************************************************************)
Min2(a, b) == IF a <= b THEN a ELSE b

\* lines 161-164: each box coordinate becomes its minimum with the dimension
ClipRow(r) ==
    [r EXCEPT !.xmin = Min2(r.xmin, r.width),
              !.ymin = Min2(r.ymin, r.height),
              !.xmax = Min2(r.xmax, r.width),
              !.ymax = Min2(r.ymax, r.height)]

\* lines 167-169: the rows the boolean mask keeps
KeepRow(r) ==
    /\ r.xmin >= 0
    /\ r.ymin >= 0
    /\ r.xmax <= r.width
    /\ r.ymax <= r.height

ClipRows(rows) == [i \in 1 .. Len(rows) |-> ClipRow(rows[i])]

\* lines 157-171 on a DataFrame that has the columns
CleanCell ==
    /\ a_pc = "built"
    /\ annotations_df.columns /= {}
    /\ annotations_df' =
           [annotations_df EXCEPT
               !.rows = SelectSeq(ClipRows(annotations_df.rows), KeepRow)]
    /\ a_pc' = "cleaned"
    /\ UNCHANGED <<folders_left, visited, annotations>>
    /\ UNCHANGED <<trainVars, preVars, cellVars>>

\* line 161 on a DataFrame without columns: KeyError
CleanCellRaises ==
    /\ a_pc = "built"
    /\ annotations_df.columns = {}
    /\ a_pc' = "clean_raised"
    /\ UNCHANGED <<folders_left, visited, annotations, annotations_df>>
    /\ UNCHANGED <<trainVars, preVars, cellVars>>

LoadNext ==
    \/ AL_EnterFolder
    \/ AL_Visit
    \/ AL_VisitRaises
    \/ AL_EndFolder
    \/ AL_Build
    \/ CleanCell
    \/ CleanCellRaises

SpecLoad == LoadInit /\ [][LoadNext]_vars

\* values of the integer columns in the cleaning cell's input
Coord == -1 .. 1

CleanRows ==
    [filename : {PyStr(NameD1)}, class : {PyStr(Pug)},
     width : Coord, height : Coord,
     xmin : Coord, ymin : Coord, xmax : Coord, ymax : Coord]

RECURSIVE SeqsUpTo(_, _)
\* the sequences over S of length at most n
SeqsUpTo(S, n) ==
    IF n = 0 THEN {<<>>}
    ELSE LET shorter == SeqsUpTo(S, n - 1)
         IN  shorter \cup {Append(q, x) : q \in shorter, x \in S}

\* the cleaning cell entered with any DataFrame of integer annotations
CleanInit ==
    /\ TrainIdle
    /\ PreIdle
    /\ CellsIdle
    /\ a_pc = "built"
    /\ folders_left = 0
    /\ visited = <<>>
    /\ \E rows \in SeqsUpTo(CleanRows, MaxRows) :
         /\ annotations = rows
         /\ annotations_df = DataFrame(rows)

CleanNext ==
    \/ CleanCell
    \/ CleanCellRaises

SpecClean == CleanInit /\ [][CleanNext]_vars

(***************************************************************************)
(* load_and_preprocess_images (lines 195-228) and its call (line 233).     *)
(***************************************************************************)
Side == 128
MaxByte == 255

ImagesPath == <<"a", "l", "l", "-", "d", "o", "g", "s", "/">>
Jpg == <<".", "j", "p", "g">>
PercentS == <<"%", "s">>

\* sub in cs, for two str
Contains(cs, sub) ==
    \E i \in 1 .. (Len(cs) - Len(sub) + 1) :
        SubSeq(cs, i, i + Len(sub) - 1) = sub

\* os.path.join(a, b)
PathJoin(a, b) ==
    IF b /= <<>> /\ b[1] = "/" THEN b
    ELSE IF a = <<>> \/ a[Len(a)] = "/" THEN a \o b
    ELSE a \o <<"/">> \o b

\* line 205: annotation_data['filename'] + '.jpg'
ImageFile(data) ==
    IF "none" \in DOMAIN data.filename THEN Raise("TypeError")
    ELSE Ok(data.filename.s \o Jpg)

\* line 206
ImagePath(data) == PathJoin(ImagesPath, ImageFile(data).val)

\* what the image path may lead to on disk
Modes == {"L", "RGB", "RGBA", "P"}
Picture(mode, trunc) ==
    [st |-> "image", mode |-> mode, size |-> <<3, 2>>,
     lo |-> 1, hi |-> MaxByte, truncated |-> trunc]
Missing == [st |-> "missing"]
Corrupt == [st |-> "corrupt"]
Denied == [st |-> "denied"]
NotOpened == [st |-> "unopened"]
DiskFiles ==
    {Missing, Corrupt, Denied}
    \cup {Picture(m, FALSE) : m \in Modes}
    \cup {Picture("RGB", TRUE)}

\* Image.open(image_path): lazy, the pixel data is read by crop
ImageOpen(d) ==
    IF d.st = "missing" THEN Raise("FileNotFoundError")
    ELSE IF d.st = "corrupt" THEN Raise("UnidentifiedImageError")
    ELSE IF d.st = "denied" THEN Raise("PermissionError")
    ELSE Ok(d)

\* mutant: the handler matches nothing
ExceptNothing(exc) == FALSE

\* line 214: except FileNotFoundError
ExceptFileNotFound(exc) == exc = "FileNotFoundError"

\* mutant: the larger of the two extents
W_Max(data) ==
    IF data.xmax - data.xmin >= data.ymax - data.ymin
    THEN data.xmax - data.xmin ELSE data.ymax - data.ymin

\* line 220: w = np.min((xmax - xmin, ymax - ymin))
W(data) == Min2(data.xmax - data.xmin, data.ymax - data.ymin)

\* line 221: bbox = (xmin, ymin, xmin + w, ymin + w)
BBox(data) ==
    <<data.xmin, data.ymin, data.xmin + W(data), data.ymin + W(data)>>

\* lines 222-223: image.crop(bbox).resize((128, 128)).  The pixel data is
\* read here; the part of the box outside the image is filled with 0; an
\* empty or reversed box is rejected or gives an empty image, resized to a
\* black one, depending on the Pillow release.
CropResize(image, box) ==
    LET inside == /\ box[1] >= 0 /\ box[2] >= 0
                  /\ box[3] <= image.size[1] /\ box[4] <= image.size[2]
        out(lo, hi) == Ok([mode |-> image.mode, size |-> <<Side, Side>>,
                           lo |-> lo, hi |-> hi])
    IN  IF image.truncated THEN {Raise("OSError")}
        ELSE IF box[3] <= box[1] \/ box[4] <= box[2]
             THEN {Raise("ValueError"), out(0, 0)}
        ELSE IF inside THEN {out(image.lo, image.hi)}
        ELSE {out(0, image.hi)}

\* np.array(resized_image): uint8, one plane for L and P, a trailing axis of
\* 3 for RGB and of 4 for RGBA
NpArray(image) ==
    [shape |-> IF image.mode \in {"L", "P"}
               THEN <<image.size[2], image.size[1]>>
               ELSE IF image.mode = "RGB"
               THEN <<image.size[2], image.size[1], 3>>
               ELSE <<image.size[2], image.size[1], 4>>,
     lo |-> image.lo, hi |-> image.hi]

\* lines 191-192: image / 255.0; a value is kept as <<numerator, denominator>>
normalize_image(arr) ==
    [shape |-> arr.shape, lo |-> <<arr.lo, MaxByte>>, hi |-> <<arr.hi, MaxByte>>]

\* line 228: np.array(processed_images); arrays of different shapes (all
\* start with 128, 128) cannot be stacked
NpStack(list) ==
    IF list = <<>> THEN Ok([shape |-> <<0>>, items |-> list])
    ELSE IF \A i \in 1 .. Len(list) : list[i].shape = list[1].shape
    THEN Ok([shape |-> <<Len(list)>> \o list[1].shape, items |-> list])
    ELSE Raise("ValueError")

\* the annotation files met by load_and_preprocess_images
PreXmlFiles ==
    {Xml(Text(NameD1), Text(NumText(3)), Text(NumText(2)), objs) :
        objs \in {<<Obj(Pug, BoxNormal)>>, <<Obj(Pug, BoxFlat)>>,
                  <<Obj(Pug, BoxReversed)>>,
                  <<Obj(Chow, BoxWide), Obj(Pug, BoxNormal)>>}}
    \cup {Xml(Text(NamePercentS), Text(NumText(3)), Text(NumText(2)),
              <<Obj(Pug, BoxNormal)>>)}
    \cup {f \in BadXmlFiles :
            \/ ~f.wellformed
            \/ f.objects = <<>>
            \/ f.width = Text(<<"x">>)
            \/ f.filename = Empty}

\* lines 196-197
PreInit ==
    /\ TrainIdle
    /\ LoadIdle
    /\ CellsIdle
    /\ lp_pc = "outer"
    /\ lp_folders_left \in 0 .. MaxFolders
    /\ lp_visited = <<>>
    /\ lp_exc = "none"
    /\ l_processed_images = <<>>
    /\ l_annotations = <<>>
    /\ bbox = <<0, 0, 0, 0>>
    /\ processed_images = Unbound

\* lines 199-200
LP_EnterFolder ==
    /\ lp_pc = "outer"
    /\ lp_folders_left > 0
    /\ lp_folders_left' = lp_folders_left - 1
    /\ lp_pc' = "inner"
    /\ UNCHANGED <<lp_visited, lp_exc, l_processed_images, l_annotations,
                   bbox, processed_images>>
    /\ UNCHANGED <<trainVars, loadVars, cellVars>>

\* line 201: the folder has no further file
LP_EndFolder ==
    /\ lp_pc = "inner"
    /\ lp_pc' = "outer"
    /\ UNCHANGED <<lp_folders_left, lp_visited, lp_exc, l_processed_images,
                   l_annotations, bbox, processed_images>>
    /\ UNCHANGED <<trainVars, loadVars, cellVars>>

\* the inner loop takes a next file
CanVisit == lp_pc = "inner" /\ Len(lp_visited) < MaxPreFiles

\* an exception leaves the function
Raised(f, d, exc) ==
    /\ lp_visited' = Append(lp_visited, [xml |-> f, disk |-> d])
    /\ lp_pc' = "raised"
    /\ lp_exc' = exc
    /\ UNCHANGED <<lp_folders_left, l_processed_images, l_annotations,
                   processed_images>>
    /\ UNCHANGED <<trainVars, loadVars, cellVars>>

\* mutant: a file that does not parse is passed over
LP_ParseRaises_Skips(F) ==
    /\ CanVisit
    /\ \E f \in F :
         /\ ~parse_annotation(f).ok
         /\ lp_visited' = Append(lp_visited, [xml |-> f, disk |-> NotOpened])
    /\ UNCHANGED <<lp_pc, lp_folders_left, lp_exc, l_processed_images,
                   l_annotations, bbox, processed_images>>
    /\ UNCHANGED <<trainVars, loadVars, cellVars>>

\* line 203: parse_annotation raises
LP_ParseRaises(F) ==
    /\ CanVisit
    /\ \E f \in F :
         /\ ~parse_annotation(f).ok
         /\ Raised(f, NotOpened, parse_annotation(f).exc)
    /\ UNCHANGED bbox

\* line 205: the filename is None
LP_PathRaises(F) ==
    /\ CanVisit
    /\ \E f \in F :
         /\ parse_annotation(f).ok
         /\ ~ImageFile(parse_annotation(f).val).ok
         /\ Raised(f, NotOpened, ImageFile(parse_annotation(f).val).exc)
    /\ UNCHANGED bbox

\* lines 203-206 went through: the record of f
Located(f) ==
    /\ parse_annotation(f).ok
    /\ ImageFile(parse_annotation(f).val).ok

\* mutant: the passed-over file leaves its annotation in the list
LP_SkipPercentS_KeepsAnnotation(F) ==
    /\ CanVisit
    /\ \E f \in F :
         /\ Located(f)
         /\ Contains(ImagePath(parse_annotation(f).val), PercentS)
         /\ lp_visited' = Append(lp_visited, [xml |-> f, disk |-> NotOpened])
         /\ l_annotations' = Append(l_annotations, parse_annotation(f).val)
    /\ UNCHANGED <<lp_pc, lp_folders_left, lp_exc, l_processed_images,
                   bbox, processed_images>>
    /\ UNCHANGED <<trainVars, loadVars, cellVars>>

\* lines 209-210: the path contains %s
LP_SkipPercentS(F) ==
    /\ CanVisit
    /\ \E f \in F :
         /\ Located(f)
         /\ Contains(ImagePath(parse_annotation(f).val), PercentS)
         /\ lp_visited' = Append(lp_visited, [xml |-> f, disk |-> NotOpened])
    /\ UNCHANGED <<lp_pc, lp_folders_left, lp_exc, l_processed_images,
                   l_annotations, bbox, processed_images>>
    /\ UNCHANGED <<trainVars, loadVars, cellVars>>

\* lines 209-213 went through to Image.open
Opened(f) ==
    /\ Located(f)
    /\ ~Contains(ImagePath(parse_annotation(f).val), PercentS)

\* lines 212-215: Image.open raises, the handler matches, continue
LP_SkipUnopened(F) ==
    /\ CanVisit
    /\ \E f \in F, d \in DiskFiles :
         /\ Opened(f)
         /\ ~ImageOpen(d).ok
         /\ ExceptFileNotFound(ImageOpen(d).exc)
         /\ lp_visited' = Append(lp_visited, [xml |-> f, disk |-> d])
    /\ UNCHANGED <<lp_pc, lp_folders_left, lp_exc, l_processed_images,
                   l_annotations, bbox, processed_images>>
    /\ UNCHANGED <<trainVars, loadVars, cellVars>>

\* lines 212-215: Image.open raises, the handler does not match
LP_OpenRaises(F) ==
    /\ CanVisit
    /\ \E f \in F, d \in DiskFiles :
         /\ Opened(f)
         /\ ~ImageOpen(d).ok
         /\ ~ExceptFileNotFound(ImageOpen(d).exc)
         /\ Raised(f, d, ImageOpen(d).exc)
    /\ UNCHANGED bbox

\* lines 217-223: crop or resize raises
LP_CropRaises(F) ==
    /\ CanVisit
    /\ \E f \in F, d \in DiskFiles :
         /\ Opened(f)
         /\ ImageOpen(d).ok
         /\ \E r \in CropResize(ImageOpen(d).val,
                                BBox(parse_annotation(f).val)) :
              /\ ~r.ok
              /\ Raised(f, d, r.exc)
         /\ bbox' = BBox(parse_annotation(f).val)

\* lines 217-226: the image is cropped, resized, normalized and appended
LP_Append(F) ==
    /\ CanVisit
    /\ \E f \in F, d \in DiskFiles :
         /\ Opened(f)
         /\ ImageOpen(d).ok
         /\ \E r \in CropResize(ImageOpen(d).val,
                                BBox(parse_annotation(f).val)) :
              /\ r.ok
              /\ l_processed_images' =
                     Append(l_processed_images,
                            normalize_image(NpArray(r.val)))
         /\ l_annotations' = Append(l_annotations, parse_annotation(f).val)
         /\ bbox' = BBox(parse_annotation(f).val)
         /\ lp_visited' = Append(lp_visited, [xml |-> f, disk |-> d])
    /\ UNCHANGED <<lp_pc, lp_folders_left, lp_exc, processed_images>>
    /\ UNCHANGED <<trainVars, loadVars, cellVars>>

\* lines 228, 233: the function returns, the two globals are assigned
LP_Return ==
    /\ lp_pc = "outer"
    /\ lp_folders_left = 0
    /\ NpStack(l_processed_images).ok
    /\ processed_images' = NpStack(l_processed_images).val
    /\ annotations' = l_annotations
    /\ lp_pc' = "returned"
    /\ UNCHANGED <<lp_folders_left, lp_visited, lp_exc, l_processed_images,
                   l_annotations, bbox>>
    /\ UNCHANGED <<trainVars, loadRest, cellVars>>

\* line 228: np.array raises on arrays of different shapes
LP_ReturnRaises ==
    /\ lp_pc = "outer"
    /\ lp_folders_left = 0
    /\ ~NpStack(l_processed_images).ok
    /\ lp_pc' = "raised"
    /\ lp_exc' = NpStack(l_processed_images).exc
    /\ UNCHANGED <<lp_folders_left, lp_visited, l_processed_images,
                   l_annotations, bbox, processed_images>>
    /\ UNCHANGED <<trainVars, loadVars, cellVars>>

PreNext ==
    \/ LP_EnterFolder
    \/ LP_EndFolder
    \/ LP_ParseRaises(PreXmlFiles)
    \/ LP_PathRaises(PreXmlFiles)
    \/ LP_SkipPercentS(PreXmlFiles)
    \/ LP_SkipUnopened(PreXmlFiles)
    \/ LP_OpenRaises(PreXmlFiles)
    \/ LP_CropRaises(PreXmlFiles)
    \/ LP_Append(PreXmlFiles)
    \/ LP_Return
    \/ LP_ReturnRaises

SpecPre == PreInit /\ [][PreNext]_vars

\* box coordinates of the crop computation's inputs
CropCoord == -1 .. 3

CropXmlFiles ==
    {Xml(Text(NameD1), Text(NumText(3)), Text(NumText(2)),
         <<Obj(Pug, <<x0, y0, x1, y1>>)>>) :
        x0 \in CropCoord, y0 \in CropCoord, x1 \in CropCoord, y1 \in CropCoord}

\* the loop at its last file, the files before it skipped for their %s
CropInit ==
    /\ TrainIdle
    /\ LoadIdle
    /\ CellsIdle
    /\ lp_pc = "inner"
    /\ lp_folders_left = 0
    /\ lp_visited =
           [i \in 1 .. (MaxPreFiles - 1) |->
               [xml |-> Xml(Text(NamePercentS), Text(NumText(3)),
                            Text(NumText(2)), <<Obj(Pug, BoxNormal)>>),
                disk |-> NotOpened]]
    /\ lp_exc = "none"
    /\ l_processed_images = <<>>
    /\ l_annotations = <<>>
    /\ bbox = <<0, 0, 0, 0>>
    /\ processed_images = Unbound

CropNext ==
    \/ LP_CropRaises(CropXmlFiles)
    \/ LP_Append(CropXmlFiles)

SpecCrop == CropInit /\ [][CropNext]_vars

(***************************************************************************)
(* train_gan                                                               *)
(***************************************************************************)
\* values a loss or an accuracy may take (0 stands for nan as well: the
\* loop never reads them)
LossVals == 0 .. 1
Metrics == LossVals \X LossVals

\* mutant: the save falls on the last iteration of each interval
SaveDue_EndOfInterval(e, s) == PyMod(e + 1, s) = 0

\* the condition of the `if` of line 449; evaluated only for save_interval /= 0
SaveDue(e, s) == PyMod(e, s) = 0 \/ e = 0

TrainInit ==
    /\ LoadIdle
    /\ PreIdle
    /\ CellsIdle
    /\ epochs \in -1 .. MaxEpochs
    /\ save_interval \in -1 .. MaxInterval
    /\ n_images \in 0 .. MaxImages
    /\ t_pc = "loop"
    /\ epoch = 0
    /\ d_loss_real = <<0, 0>>
    /\ d_loss_fake = <<0, 0>>
    /\ g_loss = 0
    /\ log = <<>>
    /\ saved = <<>>

\* lines 436-440: draw the real batch and the generated batch
T_Sample ==
    /\ t_pc = "loop"
    /\ epoch \in Range(epochs)
    /\ n_images > 0
    /\ t_pc' = "d_real"
    /\ UNCHANGED <<epochs, save_interval, n_images, epoch,
                   d_loss_real, d_loss_fake, g_loss, log, saved>>
    /\ UNCHANGED <<loadVars, preVars, cellVars>>

\* line 436: np.random.randint(0, 0, batch_size) raises ValueError
T_SampleRaises ==
    /\ t_pc = "loop"
    /\ epoch \in Range(epochs)
    /\ n_images = 0
    /\ t_pc' = "raised"
    /\ UNCHANGED <<epochs, save_interval, n_images, epoch,
                   d_loss_real, d_loss_fake, g_loss, log, saved>>
    /\ UNCHANGED <<loadVars, preVars, cellVars>>

\* line 442: discriminator.train_on_batch(real_imgs, valid)
T_DReal ==
    /\ t_pc = "d_real"
    /\ \E m \in Metrics : d_loss_real' = m
    /\ log' = Append(log, "D_real")
    /\ t_pc' = "d_fake"
    /\ UNCHANGED <<epochs, save_interval, n_images, epoch,
                   d_loss_fake, g_loss, saved>>
    /\ UNCHANGED <<loadVars, preVars, cellVars>>

\* mutant: the update on the generated batch is left out
T_DFake_Skipped ==
    /\ t_pc = "d_fake"
    /\ t_pc' = "g"
    /\ UNCHANGED <<epochs, save_interval, n_images, epoch,
                   d_loss_real, d_loss_fake, g_loss, log, saved>>
    /\ UNCHANGED <<loadVars, preVars, cellVars>>

\* line 443: discriminator.train_on_batch(gen_imgs, fake)
T_DFake ==
    /\ t_pc = "d_fake"
    /\ \E m \in Metrics : d_loss_fake' = m
    /\ log' = Append(log, "D_fake")
    /\ t_pc' = "g"
    /\ UNCHANGED <<epochs, save_interval, n_images, epoch,
                   d_loss_real, g_loss, saved>>
    /\ UNCHANGED <<loadVars, preVars, cellVars>>

\* lines 446-447: gan.train_on_batch(noise, valid)
T_G ==
    /\ t_pc = "g"
    /\ \E l \in LossVals : g_loss' = l
    /\ log' = Append(log, "G")
    /\ t_pc' = "interval"
    /\ UNCHANGED <<epochs, save_interval, n_images, epoch,
                   d_loss_real, d_loss_fake, saved>>
    /\ UNCHANGED <<loadVars, preVars, cellVars>>

\* lines 449-451, condition true: print the losses, save_images(generator, epoch)
T_Save ==
    /\ t_pc = "interval"
    /\ save_interval /= 0
    /\ SaveDue(epoch, save_interval)
    /\ log' = Append(log, "save")
    /\ saved' = Append(saved, epoch)
    /\ epoch' = epoch + 1
    /\ t_pc' = "loop"
    /\ UNCHANGED <<epochs, save_interval, n_images,
                   d_loss_real, d_loss_fake, g_loss>>
    /\ UNCHANGED <<loadVars, preVars, cellVars>>

\* line 449, condition false: next iteration
T_NoSave ==
    /\ t_pc = "interval"
    /\ save_interval /= 0
    /\ ~SaveDue(epoch, save_interval)
    /\ epoch' = epoch + 1
    /\ t_pc' = "loop"
    /\ UNCHANGED <<epochs, save_interval, n_images,
                   d_loss_real, d_loss_fake, g_loss, log, saved>>
    /\ UNCHANGED <<loadVars, preVars, cellVars>>

\* line 449: epoch % 0 raises ZeroDivisionError
T_ModRaises ==
    /\ t_pc = "interval"
    /\ save_interval = 0
    /\ t_pc' = "raised"
    /\ UNCHANGED <<epochs, save_interval, n_images, epoch,
                   d_loss_real, d_loss_fake, g_loss, log, saved>>
    /\ UNCHANGED <<loadVars, preVars, cellVars>>

\* line 435: range(epochs) is exhausted, train_gan returns
T_Return ==
    /\ t_pc = "loop"
    /\ epoch \notin Range(epochs)
    /\ t_pc' = "done"
    /\ UNCHANGED <<epochs, save_interval, n_images, epoch,
                   d_loss_real, d_loss_fake, g_loss, log, saved>>
    /\ UNCHANGED <<loadVars, preVars, cellVars>>

TrainNext ==
    \/ T_Sample
    \/ T_SampleRaises
    \/ T_DReal
    \/ T_DFake
    \/ T_G
    \/ T_Save
    \/ T_NoSave
    \/ T_ModRaises
    \/ T_Return

SpecTrain == TrainInit /\ [][TrainNext]_vars

\* single-threaded, synchronous execution: every enabled step is taken
FairSpecTrain == SpecTrain /\ WF_vars(TrainNext)


(***************************************************************************)
(* The training cells (lines 488-506) and the random search (lines         *)
(* 524-571).  A call of train_gan is taken here as one step with the       *)
(* effect of the whole loop.                                               *)
(***************************************************************************)
CellEpochs == 20000
CellInterval == 1000
TrialEpochs == 5000
TrialInterval == 1000

RECURSIVE Decimal(_)
\* the decimal text of n >= 0, as an f-string writes it
Decimal(n) ==
    IF n < 10 THEN <<DigitChars[n + 1]>>
    ELSE Decimal(n \div 10) \o <<DigitChars[(n % 10) + 1]>>

\* line 453: the default folder
ImagesFolder == <<"images/">>

\* line 466: f"{folder}/gan_generated_image_epoch_{epoch}.png"
SavePath(folder, e) ==
    folder \o <<"/", "gan_generated_image_epoch_">> \o Decimal(e) \o <<".png">>

\* mutant: a file that exists is left as it is
WriteFile_KeepFirst(fs, path, content) ==
    [q \in (DOMAIN fs) \cup {path} |-> IF q \in DOMAIN fs THEN fs[q] ELSE content]

\* fig.savefig(path): the file is created or replaced
WriteFile(fs, path, content) ==
    [q \in (DOMAIN fs) \cup {path} |-> IF q = path THEN content ELSE fs[q]]

\* lines 453-467: save_images(generator, epoch), the folder left at its default
save_images(fs, generator, e) ==
    WriteFile(fs, SavePath(ImagesFolder, e), [generator |-> generator, epoch |-> e])

RECURSIVE SortedSeq(_)
\* the elements of a set of integers in ascending order
SortedSeq(S) ==
    IF S = {} THEN <<>>
    ELSE LET m == CHOOSE x \in S : \A y \in S : x <= y
         IN  <<m>> \o SortedSeq(S \ {m})

\* lines 431-451 as a whole: the iterations run and the epochs saved, or the
\* exception of the first iteration (epoch 0 is always saved, and savefig
\* needs the folder)
train_gan(ep, si, n, folder) ==
    IF Range(ep) = {} THEN Ok([iterations |-> 0, saves |-> <<>>])
    ELSE IF n = 0 THEN Raise("ValueError")
    ELSE IF si = 0 THEN Raise("ZeroDivisionError")
    ELSE IF ~folder THEN Raise("FileNotFoundError")
    ELSE Ok([iterations |-> Cardinality(Range(ep)),
             saves |-> SortedSeq({e \in Range(ep) : SaveDue(e, si)})])

RECURSIVE SaveAll(_, _, _)
\* the save_images calls of one train_gan call, in order
SaveAll(fs, generator, saves) ==
    IF saves = <<>> THEN fs
    ELSE SaveAll(save_images(fs, generator, Head(saves)), generator, Tail(saves))

\* lines 527-531: param_grid; learning rates in 1e-5, beta1 in tenths
ParamGrid ==
    [learning_rate |-> <<20, 10, 5>>,
     beta1 |-> <<5, 4, 6>>,
     batch_size |-> <<64, 128, 256>>]

\* random.choice(values)
Choices(values) == {values[i] : i \in 1 .. Len(values)}

\* line 539: one value per key
ParamSets ==
    [learning_rate : Choices(ParamGrid.learning_rate),
     beta1 : Choices(ParamGrid.beta1),
     batch_size : Choices(ParamGrid.batch_size)]

\* line 566: random.random(), two values of [0, 1)
RandomValues == {Fl(0), Fl(1)}

\* mutant: <= in place of <
FloatLessEq(a, b) ==
    IF "inf" \in DOMAIN b THEN TRUE
    ELSE IF "inf" \in DOMAIN a THEN FALSE
    ELSE a.v <= b.v

\* a < b for floats
FloatLess(a, b) ==
    IF "inf" \in DOMAIN a THEN FALSE
    ELSE IF "inf" \in DOMAIN b THEN TRUE
    ELSE a.v < b.v

\* one completed train_gan call on a freshly built pair
RunOf(kind, built, result) ==
    [kind |-> kind, generator |-> built + 1, discriminator |-> built + 2,
     iterations |-> result.iterations, saves |-> result.saves]

\* the notebook before the basic GAN cell, the folder images/ empty or absent
CellsInit ==
    /\ LoadIdle
    /\ PreIdle
    /\ epochs = 0
    /\ save_interval = 1
    /\ n_images \in {0, MaxImages}
    /\ t_pc = "idle"
    /\ epoch = 0
    /\ d_loss_real = <<0, 0>>
    /\ d_loss_fake = <<0, 0>>
    /\ g_loss = 0
    /\ log = <<>>
    /\ saved = <<>>
    /\ c_pc = "start"
    /\ n_iter \in -1 .. MaxTrials
    /\ n_built = 0
    /\ folder_exists \in BOOLEAN
    /\ files = <<>>
    /\ runs = <<>>
    /\ trials = <<>>
    /\ rs_best_params = PyNone
    /\ rs_best_performance = Inf
    /\ best_params = Unbound

\* a cell builds a pair and trains it with epochs=20000, save_interval=1000
TrainCell(kind, from, to) ==
    /\ c_pc = from
    /\ LET r == train_gan(CellEpochs, CellInterval, n_images, folder_exists) IN
         /\ r.ok
         /\ runs' = Append(runs, RunOf(kind, n_built, r.val))
         /\ files' = SaveAll(files, n_built + 1, r.val.saves)
    /\ n_built' = n_built + 2
    /\ c_pc' = to
    /\ UNCHANGED <<n_iter, trials, rs_best_params, rs_best_performance,
                   best_params, folder_exists>>
    /\ UNCHANGED <<trainVars, loadVars, preVars>>

\* lines 488-491: the basic GAN cell
Cell_BasicGAN == TrainCell("gan", "start", "gan_done")

\* line 491: train_gan raises, the notebook stops
Cell_BasicGANRaises ==
    /\ c_pc = "start"
    /\ ~train_gan(CellEpochs, CellInterval, n_images, folder_exists).ok
    /\ n_built' = n_built + 2
    /\ c_pc' = "raised"
    /\ UNCHANGED <<n_iter, files, runs, trials, rs_best_params,
                   rs_best_performance, best_params, folder_exists>>
    /\ UNCHANGED <<trainVars, loadVars, preVars>>

\* lines 503-506: the DCGAN cell
Cell_DCGAN == TrainCell("dcgan", "gan_done", "dcgan_done")

\* lines 570, 535-536: random_search is entered
RS_Call ==
    /\ c_pc = "dcgan_done"
    /\ rs_best_params' = PyNone
    /\ rs_best_performance' = Inf
    /\ trials' = <<>>
    /\ c_pc' = "search"
    /\ UNCHANGED <<n_iter, n_built, files, runs, best_params, folder_exists>>
    /\ UNCHANGED <<trainVars, loadVars, preVars>>

\* lines 538-543 with train_gan_with_params (lines 548-567): one trial
RS_Trial ==
    /\ c_pc = "search"
    /\ Len(trials) \in Range(n_iter)
    /\ LET r == train_gan(TrialEpochs, TrialInterval, n_images, folder_exists)
           run == RunOf("gan", n_built, r.val)
           written == SaveAll(files, n_built + 1, r.val.saves)
       IN  /\ r.ok
           /\ runs' = Append(runs, run)
           /\ files' = written
           /\ \E params \in ParamSets, performance \in RandomValues :
                /\ trials' = Append(trials, [params |-> params,
                                             performance |-> performance,
                                             run |-> Len(runs) + 1])
                /\ IF FloatLess(performance, rs_best_performance)
                   THEN /\ rs_best_performance' = performance
                        /\ rs_best_params' = params
                   ELSE UNCHANGED <<rs_best_params, rs_best_performance>>
    /\ n_built' = n_built + 2
    /\ UNCHANGED <<c_pc, n_iter, best_params, folder_exists>>
    /\ UNCHANGED <<trainVars, loadVars, preVars>>

\* lines 545, 570: range(n_iter) is exhausted, best_params is assigned
RS_Return ==
    /\ c_pc = "search"
    /\ Len(trials) \notin Range(n_iter)
    /\ best_params' = rs_best_params
    /\ c_pc' = "returned"
    /\ UNCHANGED <<n_iter, n_built, files, runs, trials, rs_best_params,
                   rs_best_performance, folder_exists>>
    /\ UNCHANGED <<trainVars, loadVars, preVars>>

CellsNext ==
    \/ Cell_BasicGAN
    \/ Cell_BasicGANRaises
    \/ Cell_DCGAN
    \/ RS_Call
    \/ RS_Trial
    \/ RS_Return

SpecCells == CellsInit /\ [][CellsNext]_vars

(***************************************************************************)
(* Properties of train_gan.                                                *)
(***************************************************************************)
RECURSIVE Count(_, _)
Count(seq, x) ==
    IF seq = <<>> THEN 0
    ELSE (IF Head(seq) = x THEN 1 ELSE 0) + Count(Tail(seq), x)

RECURSIVE Updates(_)
\* the model updates of a log, the save_images calls left out
Updates(seq) ==
    IF seq = <<>> THEN <<>>
    ELSE IF Head(seq) = "save" THEN Updates(Tail(seq))
    ELSE <<Head(seq)>> \o Updates(Tail(seq))

\* ceil(a / b) for a >= 0, b >= 1
CeilDiv(a, b) == (a + b - 1) \div b

UpdateOrder == <<"D_real", "D_fake", "G">>

\* the preconditions C1 names
TrainPre == epochs >= 0 /\ save_interval >= 1 /\ n_images >= 1

C2_DiscriminatorBeforeGenerator ==
    LET u == Updates(log) IN
    /\ \A i \in 1 .. Len(u) : u[i] = UpdateOrder[((i - 1) % 3) + 1]
    /\ t_pc \in {"loop", "done"} => Len(u) = 3 * epoch
    /\ t_pc = "interval" => Len(u) = 3 * (epoch + 1)
    /\ (t_pc = "done" /\ epochs >= 0) => Len(u) = 3 * epochs

\* a returned run of at least two iterations
C2_Witness ==
    /\ t_pc = "done"
    /\ epochs >= 2
    /\ Len(Updates(log)) = 3 * epochs

\* C3: for save_interval >= 1 the epochs saved so far are 0, s, 2s, ... in
\* this order, one for every multiple of s among the iterations completed
\* (ceil(completed / s) of them), and within the log every save_images call
\* directly follows a generator update.
C3_SaveAtFixedInterval ==
    save_interval >= 1 =>
        /\ \A i \in 1 .. Len(saved) : saved[i] = (i - 1) * save_interval
        /\ t_pc \in {"loop", "done"} =>
               Len(saved) = CeilDiv(epoch, save_interval)
        /\ (t_pc = "done" /\ epochs >= 0) =>
               Len(saved) = CeilDiv(epochs, save_interval)
        /\ Count(log, "save") = Len(saved)
        /\ \A i \in 1 .. Len(log) :
               log[i] = "save" => (i > 1 /\ log[i - 1] = "G")

\* a returned run in which some iterations saved and others did not
C3_Witness ==
    /\ t_pc = "done"
    /\ save_interval = 2
    /\ epochs = 3
    /\ saved = <<0, 2>>


(***************************************************************************)
(* Properties of the annotation cells.                                     *)
(***************************************************************************)
IsIntText(el) == el.e = "text" /\ PyInt(el.t).ok

ValidObject(o) ==
    /\ o.name.e = "text"
    /\ IsIntText(o.xmin) /\ IsIntText(o.ymin)
    /\ IsIntText(o.xmax) /\ IsIntText(o.ymax)

\* a valid annotation file: well-formed, with a filename, an integer size
\* and at least one object, every object complete
ValidFile(f) ==
    /\ f.wellformed
    /\ f.filename.e = "text"
    /\ IsIntText(f.width) /\ IsIntText(f.height)
    /\ f.objects /= <<>>
    /\ \A i \in 1 .. Len(f.objects) : ValidObject(f.objects[i])

\* C9: once the cleaning cell has run, every row kept has all four box
\* coordinates between 0 and the image dimension.
C9_BoxWithinImage ==
    a_pc = "cleaned" =>
        \A i \in 1 .. Len(annotations_df.rows) :
            LET r == annotations_df.rows[i] IN
            /\ 0 <= r.xmin /\ r.xmin <= r.width
            /\ 0 <= r.xmax /\ r.xmax <= r.width
            /\ 0 <= r.ymin /\ r.ymin <= r.height
            /\ 0 <= r.ymax /\ r.ymax <= r.height

\* C10: as long as no visit raised there is one record per visited file, in
\* visiting order; when every visited file is valid no visit raises, and
\* record i has the eight fields, taken from file i and from its first
\* object; the DataFrame built from the list has the same rows.
C10_OneRecordPerFile ==
    /\ a_pc \notin {"raised", "idle"} => Len(annotations) = Len(visited)
    /\ (\A i \in 1 .. Len(visited) : ValidFile(visited[i])) =>
          /\ a_pc /= "raised"
          /\ \A i \in 1 .. Len(visited) :
               LET f == visited[i]
                   o == f.objects[1]
                   r == annotations[i]
               IN  /\ DOMAIN r = AnnotationColumns
                   /\ r.filename = PyStr(f.filename.t)
                   /\ r.width = PyInt(f.width.t).val
                   /\ r.height = PyInt(f.height.t).val
                   /\ r.class = PyStr(o.name.t)
                   /\ r.xmin = PyInt(o.xmin.t).val
                   /\ r.ymin = PyInt(o.ymin.t).val
                   /\ r.xmax = PyInt(o.xmax.t).val
                   /\ r.ymax = PyInt(o.ymax.t).val
          /\ a_pc = "built" => annotations_df.rows = annotations

\* the index built from valid files only, two of them with two objects in
\* opposite orders
C10_Witness ==
    /\ a_pc = "built"
    /\ Len(visited) >= 2
    /\ \A i \in 1 .. Len(visited) : ValidFile(visited[i])
    /\ Len(visited[1].objects) = 2
    /\ Len(visited[2].objects) = 2
    /\ annotations[1].class = PyStr(Pug)
    /\ annotations[2].class = PyStr(Chow)


(***************************************************************************)
(* Properties of load_and_preprocess_images.                               *)
(***************************************************************************)
LastVisited == lp_visited[Len(lp_visited)]

\* the elements of a list
Elems(list) == {list[i] : i \in 1 .. Len(list)}

\* an entry whose image opens, loads and has a box of positive extent
Processable(e) ==
    /\ e.disk.st = "image"
    /\ ~e.disk.truncated
    /\ parse_annotation(e.xml).val.xmax > parse_annotation(e.xml).val.xmin
    /\ parse_annotation(e.xml).val.ymax > parse_annotation(e.xml).val.ymin

\* C4: the step that visits a file whose image does not exist appends
\* nothing to either list, raises nothing and stays in the loop; FileNotFound
\* never leaves the function; every processable file visited after such a
\* file has its record in the annotations list.
C4_MissingImageSkipped ==
    /\ [][(/\ Len(lp_visited') = Len(lp_visited) + 1
           /\ lp_visited'[Len(lp_visited')].disk = Missing)
          => (/\ l_processed_images' = l_processed_images
              /\ l_annotations' = l_annotations
              /\ lp_pc' = "inner"
              /\ lp_exc' = "none")]_vars
    /\ [](lp_exc /= "FileNotFoundError")
    /\ [](\A i \in 1 .. Len(lp_visited) : \A j \in (i + 1) .. Len(lp_visited) :
             (lp_visited[i].disk = Missing /\ Processable(lp_visited[j]))
             => parse_annotation(lp_visited[j].xml).val \in Elems(l_annotations))

\* a missing image, then a file that was processed, and a normal return
C4_Witness ==
    /\ lp_pc = "returned"
    /\ Len(lp_visited) >= 2
    /\ lp_visited[1].disk = Missing
    /\ Processable(lp_visited[2])
    /\ Len(l_annotations) = 1
    /\ Len(processed_images.items) = 1

\* C5: no image file that cannot be read (missing, not an image, not
\* permitted) makes the function raise: none of the exceptions of Image.open
\* leaves it.
C5_UnreadableImageSkipped ==
    \A i \in 1 .. Len(lp_visited) :
        lp_visited[i].disk.st \in {"missing", "corrupt", "denied"}
        => lp_exc \notin {"FileNotFoundError", "UnidentifiedImageError",
                           "PermissionError"}

\* C6: a file on which parse_annotation fails is the last file visited; the
\* function is left by that exception, and the module-level processed_images
\* and annotations are not assigned, whatever the local lists held.
C6_ParseFailurePropagates ==
    \A i \in 1 .. Len(lp_visited) :
        ~parse_annotation(lp_visited[i].xml).ok
        => /\ i = Len(lp_visited)
           /\ lp_pc = "raised"
           /\ lp_exc = parse_annotation(lp_visited[i].xml).exc
           /\ processed_images = Unbound
           /\ annotations = <<>>

\* one image was processed, then the next file did not parse
C6_Witness ==
    /\ Len(lp_visited) = 2
    /\ ~parse_annotation(lp_visited[2].xml).ok
    /\ lp_exc = "ParseError"
    /\ Len(l_processed_images) = 1
    /\ processed_images = Unbound

\* C7: every array appended to processed_images has shape 128 x 128 x 3 and
\* values in [0, 1].
C7_ShapeAndRange ==
    \A i \in 1 .. Len(l_processed_images) :
        LET a == l_processed_images[i] IN
        /\ a.shape = <<Side, Side, 3>>
        /\ 0 <= a.lo[1] /\ a.lo[1] <= a.lo[2]
        /\ 0 <= a.hi[1] /\ a.hi[1] <= a.hi[2]

\* C8: the crop region of an opened image starts at (xmin, ymin), is a
\* square whose side is the smaller of xmax - xmin and ymax - ymin, ends
\* within (xmax, ymax), and has a positive side when the box has positive
\* width and height.
C8_CropRegion ==
    (lp_visited /= <<>> /\ LastVisited.disk.st = "image") =>
        LET d == parse_annotation(LastVisited.xml).val
            side == bbox[3] - bbox[1]
        IN  /\ bbox[1] = d.xmin
            /\ bbox[2] = d.ymin
            /\ bbox[4] - bbox[2] = side
            /\ side <= d.xmax - d.xmin
            /\ side <= d.ymax - d.ymin
            /\ side = d.xmax - d.xmin \/ side = d.ymax - d.ymin
            /\ bbox[3] <= d.xmax
            /\ bbox[4] <= d.ymax
            /\ (d.xmax > d.xmin /\ d.ymax > d.ymin) => side > 0

\* a box wider than high, cropped to a square of its height and appended
C8_Witness ==
    /\ lp_visited /= <<>>
    /\ LastVisited.disk.st = "image"
    /\ parse_annotation(LastVisited.xml).val.xmin = 0
    /\ parse_annotation(LastVisited.xml).val.xmax = 3
    /\ parse_annotation(LastVisited.xml).val.ymin = 1
    /\ parse_annotation(LastVisited.xml).val.ymax = 2
    /\ bbox = <<0, 1, 1, 2>>
    /\ Len(l_processed_images) = 1

(***************************************************************************)
(* Properties of the training cells and of random_search.                 *)
(***************************************************************************)
\* the number of trials random_search runs for n
TrialCount(n) == IF n > 0 THEN n ELSE 0

\* trial i has the smallest performance, and no earlier trial has it
EarliestBest(i) ==
    /\ \A j \in 1 .. Len(trials) :
         ~FloatLess(trials[j].performance, trials[i].performance)
    /\ \A j \in 1 .. (i - 1) :
         FloatLess(trials[i].performance, trials[j].performance)

\* the models of run k are used by no other run
FreshPair(k) ==
    /\ runs[k].generator /= runs[k].discriminator
    /\ \A m \in (1 .. Len(runs)) \ {k} :
         {runs[k].generator, runs[k].discriminator}
             \cap {runs[m].generator, runs[m].discriminator} = {}

\* C11: random_search runs exactly n_iter trials (none when n_iter <= 0),
\* each a freshly built generator/discriminator pair trained for 5000
\* iterations; it returns the parameters of the trial with the smallest
\* performance, the earliest one on ties, and None exactly when no trial
\* produced a performance below infinity, which includes n_iter <= 0.
C11_RandomSearchResult ==
    /\ c_pc \in {"search", "returned"} =>
         /\ Len(trials) <= TrialCount(n_iter)
         /\ \A i \in 1 .. Len(trials) :
              /\ runs[trials[i].run].kind = "gan"
              /\ runs[trials[i].run].iterations = TrialEpochs
              /\ FreshPair(trials[i].run)
              /\ \A j \in 1 .. Len(trials) :
                   trials[i].run = trials[j].run => i = j
    /\ c_pc = "returned" =>
         /\ Len(trials) = TrialCount(n_iter)
         /\ best_params = PyNone <=>
              ~\E i \in 1 .. Len(trials) : FloatLess(trials[i].performance, Inf)
         /\ n_iter <= 0 => best_params = PyNone
         /\ \A i \in 1 .. Len(trials) :
              EarliestBest(i) => best_params = trials[i].params
         /\ Len(trials) > 0 => \E i \in 1 .. Len(trials) : EarliestBest(i)

\* two trials with different parameters tie, and the first one's are returned
C11_Witness ==
    /\ c_pc = "returned"
    /\ n_iter = 2
    /\ Len(trials) = 2
    /\ trials[1].performance = trials[2].performance
    /\ trials[1].params /= trials[2].params
    /\ best_params = trials[1].params

(***************************************************************************)
(* The pairing of the two lists of load_and_preprocess_images.            *)
(***************************************************************************)
\* a step of the loop either leaves both lists alone or appends to both: the
\* annotation of the file just visited, and the image cropped with that
\* annotation's box from that file's picture
PairedAppend ==
    \/ /\ l_processed_images' = l_processed_images
       /\ l_annotations' = l_annotations
    \/ /\ Len(lp_visited') = Len(lp_visited) + 1
       /\ parse_annotation(lp_visited'[Len(lp_visited')].xml).ok
       /\ ImageOpen(lp_visited'[Len(lp_visited')].disk).ok
       /\ LET e == lp_visited'[Len(lp_visited')]
              a == parse_annotation(e.xml).val
          IN  /\ l_annotations' = Append(l_annotations, a)
              /\ \E r \in CropResize(ImageOpen(e.disk).val, BBox(a)) :
                   /\ r.ok
                   /\ l_processed_images' =
                          Append(l_processed_images,
                                 normalize_image(NpArray(r.val)))

\* C12: the list of images and the list of annotations have the same length
\* after every step of the loop, whatever was processed, skipped or visited;
\* each step that adds image i adds as entry i of annotations the annotation
\* whose box cropped it; and the returned array and list keep that pairing.
C12_ListsAligned ==
    /\ [](Len(l_processed_images) = Len(l_annotations))
    /\ [][PairedAppend]_vars
    /\ [](lp_pc = "returned" =>
            /\ annotations = l_annotations
            /\ processed_images.items = l_processed_images
            /\ processed_images.shape[1] = Len(annotations))

\* a file passed over for '%s', then a processed one whose annotation is the
\* only entry returned beside the only image
C12_Witness ==
    /\ lp_pc = "returned"
    /\ Len(lp_visited) = 2
    /\ lp_visited[1].disk = NotOpened
    /\ lp_visited[2].disk.st = "image"
    /\ Len(annotations) = 1
    /\ processed_images.shape[1] = 1
    /\ annotations[1] = parse_annotation(lp_visited[2].xml).val

(***************************************************************************)
(* The sample files written by the training cells and the trials.         *)
(***************************************************************************)
\* the epochs at which the cells and the trials save, with their paths
SampleEpochs ==
    {e \in Range(CellEpochs) : SaveDue(e, CellInterval)}
        \cup {e \in Range(TrialEpochs) : SaveDue(e, TrialInterval)}
PathOf == [e \in SampleEpochs |-> SavePath(ImagesFolder, e)]

\* run k saved epoch e
Saves(k, e) == \E i \in 1 .. Len(runs[k].saves) : runs[k].saves[i] = e

\* C13: the path of a sample is made from the epoch number alone.  Within one
\* train_gan run no two saves have the same path; a later run replaces the
\* files of earlier runs for the epochs it saves, so every file shows the
\* generator of the last run that saved its epoch; and after the basic GAN
\* and DCGAN cells the folder holds exactly 20 files, all of the DCGAN
\* generator.
C13_SamplesOverwritten ==
    /\ \A k \in 1 .. Len(runs) :
         /\ Cardinality({PathOf[runs[k].saves[i]] : i \in 1 .. Len(runs[k].saves)})
                = Len(runs[k].saves)
         /\ \A i \in 1 .. Len(runs[k].saves) :
                PathOf[runs[k].saves[i]] \in DOMAIN files
    /\ \A p \in DOMAIN files :
         /\ p = PathOf[files[p].epoch]
         /\ \E k \in 1 .. Len(runs) :
              /\ runs[k].generator = files[p].generator
              /\ Saves(k, files[p].epoch)
              /\ \A m \in (k + 1) .. Len(runs) : ~Saves(m, files[p].epoch)
    /\ c_pc = "dcgan_done" =>
         /\ Len(runs) = 2
         /\ runs[1].kind = "gan"
         /\ runs[2].kind = "dcgan"
         /\ runs[1].generator /= runs[2].generator
         /\ Cardinality(DOMAIN files) = 20
         /\ \A p \in DOMAIN files : files[p].generator = runs[2].generator

\* both cells have run: 20 files, the one of epoch 19000 by the DCGAN generator
C13_Witness ==
    /\ c_pc = "dcgan_done"
    /\ Len(runs) = 2
    /\ Cardinality(DOMAIN files) = 20
    /\ PathOf[19000] \in DOMAIN files
    /\ files[PathOf[19000]].generator = runs[2].generator

=============================================================================
